---- MODULE Spec2Model ----
(***************************************************************************)
(* Model of on1os-installer/gui.py: the On1OSInstaller wizard (Tk main     *)
(* loop), the worker thread perform_installation, the Tk after() queue,    *)
(* the pipe to the backend process, and the backend's Execution            *)
(* Supervisor (backend.sh is not part of the reviewed sources; it is       *)
(* modelled from sections 4.5 and 4.6 of the specification).               *)
(*                                                                         *)
(* A text (a Python str) is a sequence of one-character strings; a literal *)
(* of the program that is never taken apart is a one-element sequence.     *)
(***************************************************************************)
EXTENDS Integers, Sequences, FiniteSets, TLC

\* ------------------------------------------------------------------ bounds
\* Installation runs (install_step executions) explored in one behaviour.
MaxRuns == 2
\* Deployment progress milestones the backend reports in one run.
MaxMilestones == 1

\* ------------------------------------------------------- program constants
\* len(self.steps) - 1: the index of install_step.
LastStep == 10
\* len(self.steps) - 2: the index of summary_step.
SummaryStepIdx == 9
\* validate_current_step: the partition step and the users step.
PartitionStepIdx == 5
UsersStepIdx == 8

\* ------------------------------------------------------------------- texts
Lit(s) == <<s>>
NoneValue == <<"<None>">>
NoWidget == <<"<destroyed>">>

Lower ==
    {"a","b","c","d","e","f","g","h","i","j","k","l","m",
     "n","o","p","q","r","s","t","u","v","w","x","y","z"}
Upper ==
    {"A","B","C","D","E","F","G","H","I","J","K","L","M",
     "N","O","P","Q","R","S","T","U","V","W","X","Y","Z"}
Digit == {"0","1","2","3","4","5","6","7","8","9"}
Whitespace == {" ", "\n", "\t", "\r"}

\* Python truthiness of a str-or-None value (`not self.config.get(...)`,
\* `if not root_pass`, `if line`).
Truthy(v) == v # NoneValue /\ v # <<>>

\* `$` of Python's re matches at the end of the string and also just before
\* a newline that ends the string.
DollarBody(s) ==
    IF Len(s) > 0 /\ s[Len(s)] = "\n" THEN SubSeq(s, 1, Len(s) - 1) ELSE s

\* re.match(r'^[a-z][a-z0-9]*$', username)
MatchUsername(s) ==
    LET b == DollarBody(s)
    IN  /\ Len(b) >= 1
        /\ b[1] \in Lower
        /\ \A i \in 2..Len(b) : b[i] \in Lower \cup Digit

\* re.match(r'^[a-zA-Z0-9-]+$', hostname)
MatchHostname(s) ==
    LET b == DollarBody(s)
    IN  /\ Len(b) >= 1
        /\ \A i \in 1..Len(b) : b[i] \in Lower \cup Upper \cup Digit \cup {"-"}

\* str.strip()
RECURSIVE LStrip(_)
LStrip(s) ==
    IF s # <<>> /\ Head(s) \in Whitespace THEN LStrip(Tail(s)) ELSE s
RECURSIVE RStrip(_)
RStrip(s) ==
    IF s # <<>> /\ s[Len(s)] \in Whitespace
    THEN RStrip(SubSeq(s, 1, Len(s) - 1))
    ELSE s
Strip(s) == RStrip(LStrip(s))

\* `"] " in line`
SepAt(line, i) == i + 1 <= Len(line) /\ line[i] = "]" /\ line[i + 1] = " "
HasSep(line) == \E i \in 1..Len(line) : SepAt(line, i)
FirstSep(line) ==
    CHOOSE i \in 1..Len(line) :
        SepAt(line, i) /\ \A j \in 1..(i - 1) : ~SepAt(line, j)
\* line.split("] ", 1)[1].strip()
ExtractStatus(line) ==
    Strip(SubSeq(line, FirstSep(line) + 2, Len(line)))

\* p occurs in t as a contiguous run of characters.
Occurs(p, t) ==
    \E i \in 1..(Len(t) - Len(p) + 1) : SubSeq(t, i, i + Len(p) - 1) = p

RECURSIVE Flatten(_)
Flatten(ss) == IF ss = <<>> THEN <<>> ELSE Head(ss) \o Flatten(Tail(ss))

Range(s) == {s[i] : i \in 1..Len(s)}
IsPrefix(p, s) == Len(p) <= Len(s) /\ SubSeq(s, 1, Len(p)) = p


\* ----------------------------------------------------------- configuration
\* self.config as __init__ builds it (the dict's insertion order is ConfigKeys).
ConfigKeys ==
    <<"target_disk", "filesystem", "desktop_environment", "root_password",
      "username", "user_password", "user_fullname", "hostname", "language",
      "keyboard", "timezone", "mirror_country", "install_nvidia",
      "install_nonfree">>
BoolKeys == {"install_nvidia", "install_nonfree"}
DefaultHostname == <<"o","n","1","o","s">>
InitConfig ==
    [target_disk |-> NoneValue, filesystem |-> Lit("ext4"),
     desktop_environment |-> Lit("xfce"), root_password |-> <<>>,
     username |-> <<>>, user_password |-> <<>>, user_fullname |-> <<>>,
     hostname |-> DefaultHostname, language |-> Lit("en_US"),
     keyboard |-> Lit("us"), timezone |-> Lit("UTC"),
     mirror_country |-> Lit("global"), install_nvidia |-> FALSE,
     install_nonfree |-> FALSE]

\* ------------------------------------------------------------- user inputs
\* What the user may type into the entries of the users step.
PasswordPool == {<<>>, <<"p","w">>, <<";","$","(">>}
UsernamePool == {<<>>, <<"a","1">>, <<"1","a">>}
HostnamePool == {<<>>, <<"h","_">>}
FullnamePool == {<<>>}
UserPasswordPool == {<<>>, <<"p","w">>}
EntryPool ==
    [root_pass_entry |-> PasswordPool, root_pass_confirm |-> PasswordPool,
     fullname_entry |-> FullnamePool, username_entry |-> UsernamePool,
     user_pass_entry |-> UserPasswordPool, user_pass_confirm |-> UserPasswordPool,
     hostname_entry |-> HostnamePool]
EntryNames == DOMAIN EntryPool
\* The disks lsblk lists, as the combobox shows them: "/dev/<name> (<size>)".
DiskPool == {<<Lit("/dev/sda"), Lit("(8G)")>>}
\* The selectable values of the option widgets, by the step that shows them.
OptionPool ==
    [s \in 0..LastStep |->
        CASE s = 1 -> {<<"language", Lit("en_US")>>}
          [] s = 2 -> {<<"keyboard", Lit("us")>>}
          [] s = 3 -> {<<"mirror_country", Lit("global")>>}
          [] s = 4 -> {<<"timezone", Lit("UTC")>>}
          [] s = 5 -> {<<"filesystem", Lit("ext4")>>, <<"filesystem", Lit("btrfs")>>}
                      \cup {<<"target_disk", d[1]>> : d \in DiskPool}
          [] s = 6 -> {<<"desktop_environment", Lit("xfce")>>}
          [] OTHER -> {}]

\* ------------------------------------------------------------------- state
VARIABLES
    app,            \* "running", "quit" (root.quit()), "rebooted" (os.system('reboot'))
    current_step,   \* self.current_step
    config,         \* self.config
    has_entries,    \* hasattr(self, 'root_pass_entry')
    entries_alive,  \* the users-step entry widgets exist in Tk (not destroyed)
    entries,        \* their contents
    back_state,     \* self.back_btn['state']
    next_state,     \* self.next_btn['state']
    next_text,      \* self.next_btn['text']
    next_command,   \* self.next_btn['command']: "next_step" or "reboot"
    labels,         \* the texts of the labels in self.content_frame
    install_status, \* the text of self.install_status, NoWidget when destroyed
    worker,         \* position of the perform_installation thread
    e_bound,        \* the worker is still inside its except block (e is bound)
    after_queue,    \* callbacks scheduled with self.root.after(0, ...)
    proc,           \* the backend process (Execution Supervisor)
    pipe,           \* lines written by the backend and not yet read
    argv,           \* argument list of the process started by Popen
    validated,      \* history: root_confirm, user_confirm of the last users-step validation that passed
    run,            \* history of the current installation run
    counts          \* history: install activations, threads, launches

vars ==
    <<app, current_step, config, has_entries, entries_alive, entries,
      back_state, next_state, next_text, next_command, labels,
      install_status, worker, e_bound, after_queue, proc, pipe, argv,
      validated, run, counts>>
wizardVars ==
    <<current_step, config, has_entries, entries_alive, entries, back_state,
      next_state, next_text, next_command, labels, install_status>>
backendVars == <<proc, pipe>>
workerVars == <<worker, e_bound, argv>>

\* ------------------------------------------------------------ run history
NoFile == <<Lit("<absent>")>>
NoProc ==
    [state |-> "none", exited |-> FALSE, rc |-> 0, milestones |-> 0,
     stage_log |-> <<>>, written |-> <<>>]
NewRun(cfg) ==
    [config_at_install |-> cfg, \* self.config when install_step was entered
     dumped |-> FALSE,          \* json.dump has written the config file
     document |-> NoFile,       \* what this run wrote to /tmp/on1os-install-config.json
     announced |-> FALSE,       \* "Starting installation..." was scheduled
     launched |-> FALSE,        \* Popen has started the backend
     script_missing |-> FALSE,  \* os.path.exists returned False
     raised |-> FALSE,          \* the except block of perform_installation ran
     read |-> <<>>,             \* the non-empty lines readline returned
     scheduled |-> <<>>,        \* outcome callbacks scheduled, in order
     applied |-> <<>>,          \* texts set on self.install_status, in order
     outcome |-> "none",        \* outcome handler executed: "complete"/"error"
     lost |-> FALSE,            \* the outcome callback raised NameError
     error_msg |-> <<>>,        \* error_msg shown by installation_error
     returncode |-> -1]         \* process.returncode seen by the exit check
NoRun == [NewRun(InitConfig) EXCEPT !.outcome = "idle"]

\* -------------------------------------------------------------- the wizard
StepName ==
    <<"welcome_step", "language_step", "keyboard_step", "network_step",
      "timezone_step", "partition_step", "desktop_step", "drivers_step",
      "users_step", "summary_step", "install_step">>
StepTitle ==
    <<Lit("Welcome to on1OS"), Lit("Select Language"),
      Lit("Select Keyboard Layout"), Lit("Network Configuration"),
      Lit("Select Timezone"), Lit("Disk Partitioning"),
      Lit("Select Desktop Environment"), Lit("Graphics Drivers & Firmware"),
      Lit("User Accounts"), Lit("Installation Summary"),
      Lit("Installing on1OS")>>

\* users_step: fresh, empty entries; the hostname entry shows config['hostname'].
BlankEntries(cfg) ==
    [root_pass_entry |-> <<>>, root_pass_confirm |-> <<>>,
     fullname_entry |-> <<>>, username_entry |-> <<>>,
     user_pass_entry |-> <<>>, user_pass_confirm |-> <<>>,
     hostname_entry |-> cfg.hostname]
DeadEntries == BlankEntries([hostname |-> <<>>])

\* clear_content: every child of content_frame is destroyed, so an entry of
\* the users step is not alive afterwards.
AliveAfterClear(alive) == FALSE

\* validate_current_step at the users step: the first failing check returns
\* False; TRUE means every check passed.
UsersChecksNoConfirm(e) ==
    /\ Truthy(e.root_pass_entry)
    /\ Truthy(e.username_entry)
    /\ MatchUsername(e.username_entry)
    /\ Truthy(e.user_pass_entry)
    /\ Truthy(e.hostname_entry)
    /\ MatchHostname(e.hostname_entry)
UsersChecks(e) ==
    /\ Truthy(e.root_pass_entry)
    /\ e.root_pass_entry = e.root_pass_confirm
    /\ Truthy(e.username_entry)
    /\ MatchUsername(e.username_entry)
    /\ Truthy(e.user_pass_entry)
    /\ e.user_pass_entry = e.user_pass_confirm
    /\ Truthy(e.hostname_entry)
    /\ MatchHostname(e.hostname_entry)

\* validate_current_step: [ok, config after the call].
ValidateWritesBeforeChecks(step, cfg, hasEnt, e) ==
    CASE step = PartitionStepIdx ->
            [ok |-> Truthy(cfg.target_disk), config |-> cfg]
      [] step = UsersStepIdx /\ hasEnt ->
            [ok |-> UsersChecks(e),
             config |-> [cfg EXCEPT !.root_password = e.root_pass_entry,
                                    !.user_password = e.user_pass_entry,
                                    !.username = e.username_entry,
                                    !.hostname = e.hostname_entry,
                                    !.user_fullname = e.fullname_entry]]
      [] OTHER -> [ok |-> TRUE, config |-> cfg]
ValidateCurrentStep(step, cfg, hasEnt, e) ==
    CASE step = PartitionStepIdx ->
            [ok |-> Truthy(cfg.target_disk), config |-> cfg]
      [] step = UsersStepIdx /\ hasEnt ->
            IF UsersChecks(e)
            THEN [ok |-> TRUE,
                  config |-> [cfg EXCEPT !.root_password = e.root_pass_entry,
                                         !.user_password = e.user_pass_entry,
                                         !.username = e.username_entry,
                                         !.hostname = e.hostname_entry,
                                         !.user_fullname = e.fullname_entry]]
            ELSE [ok |-> FALSE, config |-> cfg]
      [] OTHER -> [ok |-> TRUE, config |-> cfg]

\* summary_step's f-string.
SummaryText(cfg) ==
    Flatten(<<Lit("Target Disk: "),
              IF Truthy(cfg.target_disk) THEN cfg.target_disk
                                         ELSE Lit("Not selected"),
              Lit("Filesystem: "), cfg.filesystem,
              Lit("Username: "), cfg.username,
              Lit("Computer Name: "), cfg.hostname,
              Lit("1. Partition and format "),
              IF cfg.target_disk = NoneValue THEN Lit("None") ELSE cfg.target_disk,
              Lit("2. Copy the live system to the new disk"),
              Lit("3. Configure user accounts"),
              Lit("4. Install GRUB bootloader")>>)

\* summary_step's "Collect user input": the reads of the entry widgets raise
\* TclError when the widgets were destroyed, before any field is assigned.
SummaryRaises(hasEnt, alive) == hasEnt /\ ~alive
SummaryCollect(cfg, hasEnt, alive, e) ==
    IF hasEnt /\ alive
    THEN [cfg EXCEPT !.root_password = e.root_pass_entry,
                     !.username = e.username_entry,
                     !.user_password = e.user_pass_entry,
                     !.user_fullname = e.fullname_entry,
                     !.hostname = e.hostname_entry]
    ELSE cfg

\* install_step: "Disable navigation".
NavStateAtInstall == "disabled"

\* show_step with self.current_step = n and self.config = cfg: clear_content,
\* the navigation buttons, then self.steps[n]().  install_step starts the
\* worker thread.
ShowStep(n, cfg, cnt) ==
    LET alive == AliveAfterClear(entries_alive)
        collected ==
            IF n = SummaryStepIdx
            THEN SummaryCollect(cfg, has_entries, alive, entries)
            ELSE cfg
    IN  /\ current_step' = n
        /\ config' = collected
        /\ has_entries' = (has_entries \/ n = UsersStepIdx)
        /\ entries_alive' = (alive \/ n = UsersStepIdx)
        /\ entries' = IF n = UsersStepIdx THEN BlankEntries(cfg)
                      ELSE IF alive THEN entries ELSE DeadEntries
        /\ next_text' = IF n = LastStep THEN "Restart"
                        ELSE IF n = SummaryStepIdx THEN "Install" ELSE "Next"
        /\ next_command' = IF n = LastStep THEN "reboot"
                           ELSE IF n = SummaryStepIdx THEN next_command
                           ELSE "next_step"
        /\ labels' =
              IF n = SummaryStepIdx /\ ~SummaryRaises(has_entries, alive)
              THEN <<StepTitle[n + 1], SummaryText(collected),
                     Lit("Click Install to begin the installation process.")>>
              ELSE <<StepTitle[n + 1]>>
        /\ IF n = LastStep
           THEN /\ install_status' = Lit("Preparing installation...")
                /\ back_state' = NavStateAtInstall
                /\ next_state' = NavStateAtInstall
                /\ worker' = "exists"
                /\ e_bound' = FALSE
                /\ run' = NewRun(collected)
                /\ counts' = [cnt EXCEPT !.threads = @ + 1]
                /\ UNCHANGED <<proc, pipe>>
           ELSE /\ install_status' = NoWidget
                /\ back_state' = IF n > 0 THEN "normal" ELSE "disabled"
                /\ counts' = cnt
                \* the history of a finished run ends when its screen is left
                /\ run' = NoRun
                /\ worker' = IF worker = "done" THEN "idle" ELSE worker
                /\ proc' = IF proc.state # "none" /\ ~proc.exited THEN proc ELSE NoProc
                /\ pipe' = <<>>
                /\ UNCHANGED <<next_state, e_bound>>


\* The option widgets (radio buttons, comboboxes) that exist at a step.
OptionWidgetsLeaked(step) == UNION {OptionPool[s] : s \in 0..LastStep}
OptionWidgets(step) == OptionPool[step]

Init ==
    /\ app = "running"
    /\ current_step = 0
    /\ config = InitConfig
    /\ has_entries = FALSE
    /\ entries_alive = FALSE
    /\ entries = DeadEntries
    /\ back_state = "disabled"
    /\ next_state = "normal"
    /\ next_text = "Next"
    /\ next_command = "next_step"
    /\ labels = <<StepTitle[1]>>
    /\ install_status = NoWidget
    /\ worker = "idle"
    /\ e_bound = FALSE
    /\ after_queue = <<>>
    /\ proc = NoProc
    /\ pipe = <<>>
    /\ argv = <<>>
    /\ validated = [root_confirm |-> <<>>, user_confirm |-> <<>>]
    /\ run = NoRun
    /\ counts = [installs |-> 0, threads |-> 0, launches |-> 0]

\* The process ends (root.quit() ends mainloop and the interpreter exits with
\* its daemon thread; reboot ends every process): no program state is left.
Terminated(how) ==
    /\ app' = how
    /\ current_step' = 0
    /\ config' = InitConfig
    /\ has_entries' = FALSE
    /\ entries_alive' = FALSE
    /\ entries' = DeadEntries
    /\ back_state' = "disabled"
    /\ next_state' = "disabled"
    /\ next_text' = "Next"
    /\ next_command' = "next_step"
    /\ labels' = <<>>
    /\ install_status' = NoWidget
    /\ worker' = "idle"
    /\ e_bound' = FALSE
    /\ after_queue' = <<>>
    /\ proc' = NoProc
    /\ pipe' = <<>>
    /\ argv' = <<>>
    /\ validated' = [root_confirm |-> <<>>, user_confirm |-> <<>>]
    /\ run' = NoRun
    /\ UNCHANGED counts

\* next_step: the command of the Next button outside the install step.
NextClick ==
    /\ app = "running"
    /\ next_state = "normal"
    /\ next_command = "next_step"
    /\ current_step = SummaryStepIdx => counts.threads < MaxRuns
    /\ LET v == ValidateCurrentStep(current_step, config, has_entries, entries)
       IN  /\ validated' =
                 IF current_step = UsersStepIdx /\ has_entries /\ v.ok
                 THEN [root_confirm |-> entries.root_pass_confirm,
                       user_confirm |-> entries.user_pass_confirm]
                 ELSE validated
           /\ IF current_step = SummaryStepIdx /\ v.ok
              THEN ShowStep(current_step + 1, v.config,
                            [counts EXCEPT !.installs = @ + 1])
              ELSE IF current_step # LastStep /\ current_step # SummaryStepIdx /\ v.ok
              THEN ShowStep(current_step + 1, v.config, counts)
              ELSE /\ config' = v.config
                   /\ UNCHANGED <<current_step, has_entries, entries_alive,
                                  entries, back_state, next_state, next_text,
                                  next_command, labels, install_status,
                                  worker, e_bound, run, counts, proc, pipe>>
    /\ UNCHANGED <<app, after_queue, argv>>

\* lambda: os.system('reboot'), the command show_step binds at the install step.
RebootClick ==
    /\ app = "running"
    /\ next_state = "normal"
    /\ next_command = "reboot"
    /\ Terminated("rebooted")

\* prev_step
BackClick ==
    /\ app = "running"
    /\ back_state = "normal"
    /\ IF current_step > 0
       THEN ShowStep(current_step - 1, config, counts)
       ELSE UNCHANGED <<wizardVars, worker, e_bound, run, counts, proc, pipe>>
    /\ UNCHANGED <<app, after_queue, argv, validated>>

\* quit_installer: askokcancel, then root.quit() when the user agrees.
QuitClick ==
    /\ app = "running"
    /\ \E ok \in BOOLEAN :
          IF ok THEN Terminated("quit") ELSE UNCHANGED vars

\* The user edits one entry of the users step.
TypeEntry ==
    /\ app = "running"
    /\ entries_alive
    /\ \E f \in EntryNames : \E t \in EntryPool[f] :
          entries' = [entries EXCEPT ![f] = t]
    /\ UNCHANGED <<app, current_step, config, has_entries, entries_alive,
                   back_state, next_state, next_text, next_command, labels,
                   install_status, workerVars, backendVars, after_queue,
                   validated, run, counts>>

\* update_config, as the radio buttons and comboboxes of a step call it.
SelectOption ==
    /\ app = "running"
    /\ \E o \in OptionWidgets(current_step) :
          config' = [config EXCEPT ![o[1]] = o[2]]
    /\ UNCHANGED <<app, current_step, has_entries, entries_alive, entries,
                   back_state, next_state, next_text, next_command, labels,
                   install_status, workerVars, backendVars, after_queue,
                   validated, run, counts>>


\* The check buttons of drivers_step: a click toggles the variable and
\* update_config stores the new value.
CheckPool == {"install_nvidia"}
ToggleOption ==
    /\ app = "running"
    /\ current_step = 7
    /\ \E k \in CheckPool : config' = [config EXCEPT ![k] = ~@]
    /\ UNCHANGED <<app, current_step, has_entries, entries_alive, entries,
                   back_state, next_state, next_text, next_command, labels,
                   install_status, workerVars, backendVars, after_queue,
                   validated, run, counts>>

\* ------------------------------------------------- main-loop after callbacks
StatusCallback(text) == [kind |-> "status", text |-> text]
CompleteCallback == [kind |-> "complete", text |-> <<>>]
ErrorCallback(msg) == [kind |-> "error", text |-> msg]
\* lambda: self.installation_error(str(e)), scheduled from the except block.
ExceptCallback == [kind |-> "except", text |-> Lit("<str(e)>")]

\* self.root.after(0, cb): timers due at the same time fire in creation order.
ScheduleFront(q, cb) == <<cb>> \o q
Schedule(q, cb) == Append(q, cb)

\* installation_complete, with the user's answer to quit_installer's dialog.
InstallationComplete(quitOk) ==
    IF quitOk
    THEN Terminated("quit")
    ELSE /\ install_status' = Lit("Installation completed successfully!")
         /\ run' = [run EXCEPT
                       !.applied = Append(@, Lit("Installation completed successfully!")),
                       !.outcome = "complete"]
         /\ after_queue' = Tail(after_queue)
         /\ UNCHANGED <<app, current_step, config, has_entries, entries_alive,
                        entries, back_state, next_state, next_text,
                        next_command, labels, workerVars, backendVars,
                        validated, counts>>

\* installation_error(error_msg)
InstallationErrorRetry(msg) ==
    /\ install_status' = Lit("Installation failed!")
    /\ run' = [NewRun(config) EXCEPT !.applied = <<Lit("Installation failed!")>>]
    /\ back_state' = "disabled"
    /\ next_state' = "disabled"
    /\ worker' = "exists"
    /\ e_bound' = FALSE
    /\ counts' = [counts EXCEPT !.threads = @ + 1]
    /\ UNCHANGED app
InstallationError(msg) ==
    /\ install_status' = Lit("Installation failed!")
    /\ run' = [run EXCEPT !.applied = Append(@, Lit("Installation failed!")),
                          !.outcome = "error",
                          !.error_msg = msg]
    /\ back_state' = "normal"
    /\ next_state' = "normal"
    /\ UNCHANGED <<app, worker, e_bound, counts>>

\* The main loop runs the oldest due callback.
RunStatusCallback ==
    /\ app = "running"
    /\ after_queue # <<>>
    /\ Head(after_queue).kind = "status"
    /\ after_queue' = Tail(after_queue)
    /\ IF install_status # NoWidget
       THEN /\ install_status' = Head(after_queue).text
            /\ run' = [run EXCEPT !.applied = Append(@, Head(after_queue).text)]
       ELSE UNCHANGED <<install_status, run>>
    /\ UNCHANGED <<app, current_step, config, has_entries, entries_alive,
                   entries, back_state, next_state, next_text, next_command,
                   labels, workerVars, backendVars, validated, counts>>

RunCompleteCallback ==
    /\ app = "running"
    /\ after_queue # <<>>
    /\ Head(after_queue).kind = "complete"
    /\ \E quitOk \in BOOLEAN : InstallationComplete(quitOk)

RunErrorCallback ==
    /\ app = "running"
    /\ after_queue # <<>>
    /\ Head(after_queue).kind = "error"
    /\ after_queue' = Tail(after_queue)
    /\ InstallationError(Head(after_queue).text)
    /\ UNCHANGED <<current_step, config, has_entries, entries_alive, entries,
                   next_text, next_command, labels, argv,
                   backendVars, validated>>

\* The lambda of the except block reads e when it runs: e is bound only while
\* the worker has not left the except block; afterwards the read raises
\* NameError inside the Tk callback and installation_error is not called.
RunExceptCallback ==
    /\ app = "running"
    /\ after_queue # <<>>
    /\ Head(after_queue).kind = "except"
    /\ after_queue' = Tail(after_queue)
    /\ IF e_bound
       THEN InstallationError(Head(after_queue).text)
       ELSE /\ run' = [run EXCEPT !.lost = TRUE]
            /\ UNCHANGED <<install_status, back_state, next_state, app,
                           worker, e_bound, counts>>
    /\ UNCHANGED <<current_step, config, has_entries, entries_alive, entries,
                   next_text, next_command, labels, argv,
                   backendVars, validated>>


\* ------------------------------------------------------------ json.dump
JsonEscapeChar(c) ==
    CASE c = "\n" -> <<"\\", "n">>
      [] c = "\"" -> <<"\\", "\"">>
      [] c = "\\" -> <<"\\", "\\">>
      [] OTHER -> <<c>>
JsonString(t) ==
    <<"\"">> \o Flatten([i \in 1..Len(t) |-> JsonEscapeChar(t[i])]) \o <<"\"">>
JsonValue(key, v) ==
    IF key \in BoolKeys THEN (IF v THEN Lit("true") ELSE Lit("false"))
    ELSE IF v = NoneValue THEN Lit("null")
    ELSE JsonString(v)
\* json.dump(self.config, f, indent=2): the members in the dict's order.
JsonDump(cfg) ==
    [i \in 1..Len(ConfigKeys) |->
        <<ConfigKeys[i], JsonValue(ConfigKeys[i], cfg[ConfigKeys[i]])>>]

\* --------------------------------------------- perform_installation (worker)
BackendScript == Lit("/usr/local/share/on1os-installer/backend.sh")
\* subprocess.Popen([backend_script], ...)
PopenArgvWithSecrets(cfg) == <<BackendScript, cfg.root_password, cfg.user_password>>
PopenArgv(cfg) == <<BackendScript>>

\* The except block: the lambda is scheduled while e is bound.
\* Nothing waits for or ends a backend that is running then: it runs on
\* unobserved, its pipe unread.
OrphanProc == [NoProc EXCEPT !.state = "orphan"]
EnterExcept ==
    /\ after_queue' = Schedule(after_queue, ExceptCallback)
    /\ worker' = "in_except"
    /\ e_bound' = TRUE
    /\ run' = [run EXCEPT !.raised = TRUE, !.scheduled = Append(@, "except")]
    /\ proc' = IF proc.state # "none" /\ ~proc.exited THEN OrphanProc ELSE proc
    /\ pipe' = <<>>

\* Leaving the except block unbinds e; the thread ends.
WorkerLeaveExcept ==
    /\ app = "running"
    /\ worker = "in_except"
    /\ worker' = "done"
    /\ e_bound' = FALSE
    /\ UNCHANGED <<app, wizardVars, after_queue, backendVars, argv,
                   validated, run, counts>>

\* os.path.exists(backend_script)
WorkerCheckScript ==
    /\ app = "running"
    /\ worker = "exists"
    /\ \E exists \in BOOLEAN :
          IF exists
          THEN /\ worker' = "dump"
               /\ UNCHANGED <<after_queue, run>>
          ELSE /\ worker' = "done"
               /\ after_queue' =
                     Schedule(after_queue,
                              ErrorCallback(Lit("Backend script not found: ")
                                            \o BackendScript))
               /\ run' = [run EXCEPT !.script_missing = TRUE,
                                     !.scheduled = Append(@, "error")]
    /\ UNCHANGED <<app, wizardVars, e_bound, backendVars, argv,
                   validated, counts>>

\* open(config_file, 'w') and json.dump(self.config, f, indent=2)
WorkerDumpConfig ==
    /\ app = "running"
    /\ worker = "dump"
    /\ \E result \in {"ok", "open_raises", "dump_raises"} :
          IF result = "ok"
          THEN /\ worker' = "announce"
               /\ run' = [run EXCEPT !.dumped = TRUE,
                                     !.document = JsonDump(config)]
               /\ UNCHANGED <<after_queue, e_bound, proc, pipe>>
          ELSE EnterExcept
    /\ UNCHANGED <<app, wizardVars, argv, validated, counts>>

\* self.root.after(0, lambda: self.install_status.config(text="Starting installation..."))
WorkerAnnounce ==
    /\ app = "running"
    /\ worker = "announce"
    /\ after_queue' =
          Schedule(after_queue, StatusCallback(Lit("Starting installation...")))
    /\ worker' = "popen"
    /\ run' = [run EXCEPT !.announced = TRUE]
    /\ UNCHANGED <<app, wizardVars, e_bound, backendVars, argv,
                   validated, counts>>

\* subprocess.Popen: a new process with a new pipe, or an exception.
WorkerPopen ==
    /\ app = "running"
    /\ worker = "popen"
    /\ \E started \in BOOLEAN :
          IF started
          THEN /\ proc' = [NoProc EXCEPT !.state = "Pending"]
               /\ pipe' = <<>>
               /\ argv' = PopenArgv(config)
               /\ worker' = "poll"
               /\ run' = [run EXCEPT !.launched = TRUE]
               /\ counts' = [counts EXCEPT !.launches = @ + 1]
               /\ UNCHANGED <<after_queue, e_bound>>
          ELSE /\ EnterExcept
               /\ UNCHANGED <<argv, counts>>
    /\ UNCHANGED <<app, wizardVars, validated>>

\* while process.poll() is None
WorkerPoll ==
    /\ app = "running"
    /\ worker = "poll"
    /\ IF proc.exited
       THEN /\ worker' = "exitcheck"
            /\ run' = [run EXCEPT !.returncode = proc.rc]
       ELSE /\ worker' = "readline"
            /\ UNCHANGED run
    /\ UNCHANGED <<app, wizardVars, e_bound, after_queue, backendVars, argv,
                   validated, counts>>

\* line = process.stdout.readline(): blocks until a line or end of file;
\* a line containing "] " schedules one status update.
WorkerReadline ==
    /\ app = "running"
    /\ worker = "readline"
    /\ pipe # <<>> \/ proc.exited
    /\ LET line == IF pipe # <<>> THEN Head(pipe) ELSE <<>>
       IN  /\ pipe' = IF pipe # <<>> THEN Tail(pipe) ELSE pipe
           /\ run' = IF Truthy(line) THEN [run EXCEPT !.read = Append(@, line)]
                     ELSE run
           /\ after_queue' =
                 IF Truthy(line) /\ HasSep(line)
                 THEN Schedule(after_queue, StatusCallback(ExtractStatus(line)))
                 ELSE after_queue
    /\ worker' = "poll"
    /\ UNCHANGED <<app, wizardVars, e_bound, proc, argv,
                   validated, counts>>

\* readline raises (the text layer cannot decode the backend's bytes).
WorkerReadlineRaises ==
    /\ app = "running"
    /\ worker = "readline"
    /\ pipe # <<>>
    /\ EnterExcept
    /\ UNCHANGED <<app, wizardVars, argv, validated, counts>>

\* The exit check: "if process.returncode == 0".
ExitIsSuccessAlways(rc) == TRUE
ExitIsSuccess(rc) == rc = 0

\* error_output = process.communicate()[0]: what is left unread in the pipe.
Communicate(unread) == Flatten(unread)

WorkerExitCheck ==
    /\ app = "running"
    /\ worker = "exitcheck"
    /\ IF ExitIsSuccess(run.returncode)
       THEN /\ after_queue' = Schedule(after_queue, CompleteCallback)
            /\ run' = [run EXCEPT !.scheduled = Append(@, "complete")]
            /\ UNCHANGED pipe
       ELSE /\ after_queue' =
                  Schedule(after_queue, ErrorCallback(Communicate(pipe)))
            /\ run' = [run EXCEPT !.scheduled = Append(@, "error")]
            /\ pipe' = <<>>
    /\ worker' = "done"
    /\ UNCHANGED <<app, wizardVars, e_bound, proc, argv,
                   validated, counts>>


\* ------------------------------------- the backend (Execution Supervisor)
\* Modelled from the specification, sections 4.5 and 4.6.
StageOrder == <<"Preparing", "Deploying", "Configuring", "InstallingBootloader">>
SupervisorStates == {"Pending"} \cup Range(StageOrder)

\* The state that follows a state whose result is Success.
SupervisorNextSkipping(state) ==
    CASE state = "Pending" -> "Preparing"
      [] state = "Preparing" -> "Deploying"
      [] state = "Deploying" -> "InstallingBootloader"
      [] state = "Configuring" -> "InstallingBootloader"
      [] OTHER -> "Completed"
SupervisorNext(state) ==
    CASE state = "Pending" -> "Preparing"
      [] state = "Preparing" -> "Deploying"
      [] state = "Deploying" -> "Configuring"
      [] state = "Configuring" -> "InstallingBootloader"
      [] OTHER -> "Completed"

\* The Progress Reporter's line for a state transition.
ProgressLine(state) ==
    CASE state = "Preparing" -> <<"[", "1", "]", " ", "d", "\n">>
      [] state = "Deploying" -> <<"[", "2", "]", " ", " ", "c", " ", "\n">>
      [] state = "Configuring" -> <<"[", "3", "]", " ", "u", "]", " ", "h", "\n">>
      [] state = "InstallingBootloader" -> <<"[", "4", "]", " ", "g", "\n">>
      [] state = "Completed" -> <<"[", "o", "k", "]", " ", "d", "o", "n", "e", "\n">>
      [] OTHER -> <<"[", "!", "]", " ", "f", "a", "i", "l", "\n">>
\* A deployment progress milestone (no "] " in it).
MilestoneLine == <<"5", "0", "%", "\n">>

BackendRunning == proc.state # "none" /\ ~proc.exited

\* A state's result is Success: the Supervisor moves to the next state.
BackendAdvance ==
    /\ BackendRunning
    /\ proc.state \in SupervisorStates
    /\ LET next == SupervisorNext(proc.state)
           closed ==
               IF proc.stage_log = <<>> THEN <<>>
               ELSE [proc.stage_log EXCEPT ![Len(proc.stage_log)].result = "Success"]
       IN  /\ proc' = [proc EXCEPT
                         !.state = next,
                         !.stage_log =
                             IF next = "Completed" THEN closed
                             ELSE Append(closed, [stage |-> next, result |-> "running"]),
                         !.written = Append(@, ProgressLine(next))]
           /\ pipe' = Append(pipe, ProgressLine(next))
    /\ UNCHANGED <<app, wizardVars, workerVars, after_queue, validated, run,
                   counts>>

\* A state's result is Failure: Failed(stage, cause), and nothing runs after it.
BackendFail ==
    /\ BackendRunning
    /\ proc.state \in SupervisorStates
    /\ proc' = [proc EXCEPT
                  !.state = "Failed",
                  !.stage_log =
                      IF @ = <<>> THEN @
                      ELSE [@ EXCEPT ![Len(@)].result = "Failure"],
                  !.written = Append(@, ProgressLine("Failed"))]
    /\ pipe' = Append(pipe, ProgressLine("Failed"))
    /\ UNCHANGED <<app, wizardVars, workerVars, after_queue, validated, run,
                   counts>>

\* A deployment progress milestone.
BackendMilestone ==
    /\ BackendRunning
    /\ proc.state = "Deploying"
    /\ proc.milestones < MaxMilestones
    /\ proc' = [proc EXCEPT !.milestones = @ + 1,
                            !.written = Append(@, MilestoneLine)]
    /\ pipe' = Append(pipe, MilestoneLine)
    /\ UNCHANGED <<app, wizardVars, workerVars, after_queue, validated, run,
                   counts>>

\* A backend nobody monitors ends at some time of its own.
OrphanExit ==
    /\ proc.state = "orphan"
    /\ proc' = NoProc
    /\ UNCHANGED <<app, wizardVars, workerVars, after_queue, pipe, validated,
                   run, counts>>

\* The process exits: 0 after Completed, non-zero after Failed.
BackendExit ==
    /\ BackendRunning
    /\ proc.state \in {"Completed", "Failed"}
    /\ proc' = [proc EXCEPT !.exited = TRUE,
                            !.rc = IF proc.state = "Completed" THEN 0 ELSE 1]
    /\ UNCHANGED <<app, wizardVars, workerVars, after_queue, pipe, validated,
                   run, counts>>

\* ---------------------------------------------------------- specification
Next ==
    \/ NextClick
    \/ RebootClick
    \/ BackClick
    \/ QuitClick
    \/ TypeEntry
    \/ SelectOption
    \/ ToggleOption
    \/ RunStatusCallback
    \/ RunCompleteCallback
    \/ RunErrorCallback
    \/ RunExceptCallback
    \/ WorkerCheckScript
    \/ WorkerDumpConfig
    \/ WorkerAnnounce
    \/ WorkerPopen
    \/ WorkerPoll
    \/ WorkerReadline
    \/ WorkerReadlineRaises
    \/ WorkerExitCheck
    \/ WorkerLeaveExcept
    \/ BackendAdvance
    \/ BackendFail
    \/ BackendMilestone
    \/ BackendExit
    \/ OrphanExit

Spec == Init /\ [][Next]_vars


\* ================================================================ claims
\* A run exists: install_step started perform_installation and the wizard
\* still shows the install step.
RunExists == run.outcome # "idle"

\* C1: whenever the backend is invoked (perform_installation was started by
\* install_step), the configuration record is validated: target_disk is
\* non-empty, username and hostname match their patterns, both passwords are
\* non-empty and equal the confirmation values entered when the users step
\* was validated.
C1_ValidatedBeforeBackend ==
    RunExists =>
        /\ Truthy(config.target_disk)
        /\ MatchUsername(config.username)
        /\ MatchHostname(config.hostname)
        /\ Truthy(config.root_password)
        /\ Truthy(config.user_password)
        /\ config.root_password = validated.root_confirm
        /\ config.user_password = validated.user_confirm
        /\ run.config_at_install = config
\* A second run, started after a failed one and a second pass through the
\* users and summary steps, with a password of shell metacharacters.
C1_Witness ==
    /\ worker = "exists"
    /\ counts.threads = 2
    /\ has_entries /\ ~entries_alive
    /\ config.root_password = <<";","$","(">>

\* C2: no run fails silently: once the worker thread has ended and the main
\* loop has run every callback it scheduled, installation_complete or
\* installation_error has executed; and after the except block of
\* perform_installation ran, installation_error was shown and the navigation
\* buttons are enabled again.
C2_NoSilentFailure ==
    (RunExists /\ worker = "done" /\ after_queue = <<>>) =>
        /\ run.outcome \in {"complete", "error"}
        /\ run.raised =>
              (run.outcome = "error" /\ back_state = "normal"
                                     /\ next_state = "normal")

\* C3: the outcome scheduled for a run matches the backend's result:
\* installation_complete only after the backend was started and exited with
\* return code 0, installation_error when the script is missing or the
\* return code is not 0, and never more than one outcome callback per run.
C3_OutcomeMatchesBackend ==
    RunExists =>
        /\ Len(run.scheduled) <= 1
        /\ "complete" \in Range(run.scheduled) =>
              (run.launched /\ run.returncode = 0 /\ proc.exited /\ proc.rc = 0)
        /\ run.script_missing => (run.scheduled = <<"error">> /\ ~run.launched)
        /\ (worker = "done" /\ run.returncode > 0) => run.scheduled = <<"error">>
C3_Witness ==
    /\ run.scheduled = <<"complete">>
    /\ run.outcome = "complete"
    /\ Len(proc.stage_log) = 4

\* C4: a failed run is never retried automatically: worker threads and
\* backend launches never outnumber the user's activations of Install, a run
\* exists only at the install step, and after installation_error no worker
\* is working.
C4_NoAutomaticRetry ==
    /\ counts.launches <= counts.threads
    /\ counts.threads <= counts.installs
    /\ RunExists => current_step = LastStep
    /\ run.outcome = "error" => worker \in {"done", "in_except"}
\* The user went back after a failed run and activated Install again.
C4_Witness ==
    /\ counts.installs = 2
    /\ counts.launches = 2
    /\ run.outcome = "error"

\* C5: at most one installation run is active: no worker thread is started
\* (and none is on its way to Popen) while a backend process of an earlier
\* run has not exited.
C5_AtMostOneActiveRun ==
    ~(/\ worker \in {"exists", "dump", "announce", "popen"}
      /\ proc.state # "none"
      /\ ~proc.exited)


\* The part of a line after its first "] ", as the claim words it.
RECURSIVE C6_AfterFirstSep(_)
C6_AfterFirstSep(s) ==
    IF Len(s) < 2 THEN <<>>
    ELSE IF s[1] = "]" /\ s[2] = " " THEN SubSeq(s, 3, Len(s))
    ELSE C6_AfterFirstSep(Tail(s))
C6_ContainsSep(s) == Occurs(<<"]", " ">>, s)
RECURSIVE C6_Trim(_)
C6_Trim(s) ==
    IF s = <<>> THEN s
    ELSE IF s[1] \in Whitespace THEN C6_Trim(Tail(s))
    ELSE IF s[Len(s)] \in Whitespace THEN C6_Trim(SubSeq(s, 1, Len(s) - 1))
    ELSE s
\* The status updates the lines read so far call for, in reading order.
RECURSIVE C6_Updates(_)
C6_Updates(lines) ==
    IF lines = <<>> THEN <<>>
    ELSE (IF C6_ContainsSep(Head(lines))
          THEN <<C6_Trim(C6_AfterFirstSep(Head(lines)))>>
          ELSE <<>>) \o C6_Updates(Tail(lines))
RECURSIVE C6_Queued(_)
C6_Queued(q) ==
    IF q = <<>> THEN <<>>
    ELSE (IF Head(q).kind = "status" THEN <<Head(q).text>> ELSE <<>>)
         \o C6_Queued(Tail(q))

\* C6: the status stream is consumed in order and ends with the outcome:
\* every line read that contains "] " gives exactly one update of the status
\* label, with the text after the first "] " stripped; lines without "] "
\* give none; the updates reach the label in reading order; and the outcome
\* text is set after every status update of the run and stays on the label.
C6_StatusStreamInOrder ==
    RunExists =>
        LET expected ==
                (IF run.announced THEN <<Lit("Starting installation...")>>
                                  ELSE <<>>) \o C6_Updates(run.read)
            final ==
                CASE run.outcome = "complete" ->
                        <<Lit("Installation completed successfully!")>>
                  [] run.outcome = "error" -> <<Lit("Installation failed!")>>
                  [] OTHER -> <<>>
        IN  /\ final = <<>> => run.applied \o C6_Queued(after_queue) = expected
            /\ final # <<>> =>
                  /\ C6_Queued(after_queue) = <<>>
                  /\ run.applied = expected \o final
                  /\ install_status = final[1]
            /\ run.applied # <<>> => install_status = run.applied[Len(run.applied)]
\* A run that read a line without "] ", a line with two "] " and ended.
C6_Witness ==
    /\ run.outcome = "error"
    /\ MilestoneLine \in Range(run.read)
    /\ ProgressLine("Configuring") \in Range(run.read)
    /\ Len(run.applied) >= 5

\* C7: when the backend exits with a non-zero code, the message passed to
\* installation_error carries the diagnostic text the backend printed: it is
\* non-empty when the backend wrote a line, and holds the failure
\* description, the last line written.
C7_ErrorCarriesDiagnostic ==
    (/\ run.outcome = "error"
     /\ run.launched
     /\ run.returncode > 0
     /\ proc.written # <<>>) =>
        /\ run.error_msg # <<>>
        /\ Occurs(proc.written[Len(proc.written)], run.error_msg)

\* C8: the configuration record is immutable once the run starts: from
\* install_step until the outcome callback has executed self.config equals
\* the record as it was when Install was activated, and the document the
\* worker wrote is the serialization of that record.
C8_ConfigImmutableDuringRun ==
    run.outcome = "none" =>
        /\ config = run.config_at_install
        /\ run.dumped => run.document = JsonDump(run.config_at_install)
\* The worker has written the document while main-loop callbacks are pending.
C8_Witness ==
    /\ run.outcome = "none"
    /\ run.dumped
    /\ after_queue # <<>>
    /\ config.filesystem = Lit("btrfs")
    /\ config.install_nvidia

\* The secrets of the record.  The passwords a user may type are texts that
\* no other input and no literal of the program contains, so a password that
\* occurs in a text has flowed into it.
C9_Secrets ==
    {pw \in {config.root_password, config.user_password,
             run.config_at_install.root_password,
             run.config_at_install.user_password} : Truthy(pw)}
\* C9: the passwords never appear in the argument list of the backend
\* process, nor in the text the GUI generates for display: the labels of the
\* current screen, the summary text built from the record, and the status
\* label.
C9_NoSecretsExposed ==
    \A pw \in C9_Secrets :
        /\ \A i \in 1..Len(argv) : ~Occurs(pw, argv[i])
        /\ \A i \in 1..Len(labels) : ~Occurs(pw, labels[i])
        /\ ~Occurs(pw, SummaryText(config))
        /\ ~Occurs(pw, install_status)
C9_Witness ==
    /\ argv = <<BackendScript>>
    /\ BackendRunning
    /\ config.root_password = <<";","$","(">>
    /\ config.user_password = <<"p","w">>
    /\ install_status # Lit("Preparing installation...")

\* C10: the stages run strictly in the order disk preparation, system
\* deployment, system configuration, bootloader installation; a stage begins
\* only after the previous stage's result is Success; the first Failure is
\* the last stage executed; no stage is skipped or run twice.
C10_StageOrdering ==
    LET log == proc.stage_log
    IN  /\ Len(log) <= Len(StageOrder)
        /\ \A i \in 1..Len(log) : log[i].stage = StageOrder[i]
        /\ \A i \in 1..(Len(log) - 1) : log[i].result = "Success"
        /\ \A i \in 1..Len(log) :
              log[i].stage = "InstallingBootloader" =>
                  \E j \in 1..(i - 1) :
                      log[j].stage = "Configuring" /\ log[j].result = "Success"
        /\ proc.state = "Completed" =>
              (Len(log) = 4 /\ \A i \in 1..4 : log[i].result = "Success")
        /\ proc.state \in Range(StageOrder) =>
              (log # <<>> /\ log[Len(log)] = [stage |-> proc.state, result |-> "running"])
\* The System Configuration Stage failed: the run is Failed and the
\* Bootloader Stage was not executed.
C10_Witness ==
    /\ proc.state = "Failed"
    /\ Len(proc.stage_log) = 3
    /\ proc.stage_log[3] = [stage |-> "Configuring", result |-> "Failure"]
    /\ proc.exited


\* C11: whenever the wizard shows the summary step, however it was reached,
\* the Next button is labelled 'Install' and its command is next_step, never
\* the reboot command that show_step binds at the install step.
C11_InstallButtonRunsNextStep ==
    (app = "running" /\ current_step = SummaryStepIdx) =>
        (next_text = "Install" /\ next_command = "next_step")

\* C12: the reboot command can be executed by a click (the button is enabled
\* and bound to it) only after installation_complete has executed for the
\* most recent run; never while a run is in progress or after it ended in
\* installation_error.
C12_RebootOnlyAfterSuccess ==
    (app = "running" /\ next_state = "normal" /\ next_command = "reboot") =>
        run.outcome = "complete"

\* The lines with "] " among lines, in order.
RECURSIVE C13_StatusLines(_)
C13_StatusLines(lines) ==
    IF lines = <<>> THEN <<>>
    ELSE (IF HasSep(Head(lines)) THEN <<Head(lines)>> ELSE <<>>)
         \o C13_StatusLines(Tail(lines))
\* C13: no status line is lost: once the monitoring loop has ended normally
\* and the run's outcome has been shown, every line containing "] " that the
\* backend wrote before it exited has been read by the loop.
C13_NoStatusLineLost ==
    (/\ run.outcome \in {"complete", "error"}
     /\ run.launched
     /\ ~run.raised
     /\ proc.exited) =>
        C13_StatusLines(run.read) = C13_StatusLines(proc.written)

\* C14: the step cursor stays within 0..10 and moves one screen at a time:
\* prev_step decrements it by exactly 1 and only when it is > 0; next_step
\* increments it by exactly 1 only when it is < 10 and validate_current_step
\* returns True, and otherwise leaves the cursor and the configuration record
\* unchanged; nothing else moves the cursor.
C14_CursorInRangeOneStep ==
    [][app' = "running" =>
        /\ current_step \in 0..LastStep
        /\ current_step' \in 0..LastStep
        /\ BackClick =>
              IF current_step > 0
              THEN current_step' = current_step - 1
              ELSE current_step' = current_step
        /\ NextClick =>
              IF /\ current_step < LastStep
                 /\ ValidateCurrentStep(current_step, config, has_entries, entries).ok
              THEN current_step' = current_step + 1
              ELSE current_step' = current_step /\ config' = config
        /\ current_step' # current_step => (BackClick \/ NextClick)
    ]_vars
\* The cursor is at the users step after a users-step check failed (the
\* passwords typed do not match and no field was written), having been at
\* the last step before.
C14_Witness ==
    /\ app = "running"
    /\ current_step = UsersStepIdx
    /\ counts.installs = 1
    /\ entries_alive
    /\ entries.root_pass_entry = <<"p", "w">>
    /\ entries.root_pass_confirm = <<>>
    /\ config.root_password = <<";", "$", "(">>

====
